---- MODULE Spec2Model ----
(***************************************************************************)
(* Model of streamlit_app.py (NYC subway real-time tracker).               *)
(*                                                                         *)
(* Strings are sequences of one-character strings, so that slicing,        *)
(* startswith, contains, lower, replace, split and lexicographic order are *)
(* computed as Python computes them.  None is the one-element sequence     *)
(* <<"None">>, which no string of single characters can equal.             *)
(* An optional value (found_start, found_end, delay) is <<>> for None and  *)
(* <<v>> for the value v.                                                  *)
(* An instant, a whole number of seconds since the epoch (arrival.time is  *)
(* an int64), is the pair <<day, second>> of its whole days since the      *)
(* epoch and its second of that day, 0 <= second < 86400: the ends of      *)
(* datetime's range, years 1 and 9999, lie beyond 2^31 seconds.            *)
(***************************************************************************)
EXTENDS Integers, Sequences, FiniteSets, TLC

VARIABLES
    cache,          \* st.cache_resource entry of load_gtfs_static_data
    builds,         \* number of completed runs of load_gtfs_static_data's body past the download
    feed_name,      \* value of the "Select a subway line:" selectbox
    start_stop,     \* value of the "From:" selectbox
    end_stop,       \* value of the "To:" selectbox
    session_state,  \* st.session_state: a function from the keys set so far
    run,            \* what the last script run did (outcome, fetches, messages, map)
    pf,             \* frame of one parse_feed call, stepped update by update
    tp,             \* frame of one plot_selected_trip_on_map call, stepped entity by entity
    ls              \* frame of one get_stops_for_line call

vars == <<cache, builds, feed_name, start_stop, end_stop, session_state, run, pf, tp, ls>>
appVars == <<cache, builds, feed_name, start_stop, end_stop, session_state, run>>

-----------------------------------------------------------------------------
(* Bounds of the model                                                     *)

MaxStops == 3       \* rows of a stops table drawn for get_stops_for_line
MaxEntities == 2    \* entities of a feed drawn for parse_feed / plot_selected_trip_on_map
MaxUpdates == 3     \* stop-time updates of one drawn trip update
NowRes == 2         \* clock ticks per second: now is a float, arrival times are whole seconds

-----------------------------------------------------------------------------
(* Python values and string operations                                     *)

None == <<"None">>
NoneT == <<>>
Some(t) == <<t>>

\* Python truth value of an optional integer: None and 0 are false.
Truthy(x) == x # NoneT /\ x[1] # 0

SecondsPerDay == 86400

\* the instant of the given day and second of the day
Instant(day, second) == <<day, second>>

\* the instant t seconds after the epoch
At(t) == Instant(t \div SecondsPerDay, t % SecondsPerDay)

\* a < b, for two instants
Before(a, b) == a[1] < b[1] \/ (a[1] = b[1] /\ a[2] < b[2])

\* the instant t + seconds
Plus(t, seconds) ==
    Instant(t[1] + ((t[2] + seconds) \div SecondsPerDay), (t[2] + seconds) % SecondsPerDay)

\* Python truth value of an optional instant: None and 0 are false.
TruthyTime(x) == x # NoneT /\ x[1] # At(0)

\* The characters the model uses, in code-point order.
Chars == <<" ", "-", "0", "1", "2", "3", "4", "5", "6", "7", "8", "9",
           "A", "B", "C", "D", "E", "F", "G", "I", "J", "L", "M", "N", "Q", "R", "S", "T", "W", "Z",
           "a", "b", "c", "d", "e", "f", "g", "h", "i", "j", "l", "m", "n", "q", "r", "s", "t", "w", "y", "z">>

Ord(c) == CHOOSE i \in 1..Len(Chars) : Chars[i] = c

UpperChars == <<"A", "B", "C", "D", "E", "F", "G", "I", "J", "L", "M", "N", "Q", "R", "S", "T", "W", "Z">>
LowerChars == <<"a", "b", "c", "d", "e", "f", "g", "i", "j", "l", "m", "n", "q", "r", "s", "t", "w", "z">>

\* str.lower() on one character
LowerChar(c) ==
    IF \E i \in 1..Len(UpperChars) : UpperChars[i] = c
    THEN LowerChars[CHOOSE i \in 1..Len(UpperChars) : UpperChars[i] = c]
    ELSE c

\* str.lower()
Lower(s) == [i \in 1..Len(s) |-> LowerChar(s[i])]

\* s[:n]
Take(s, n) == SubSeq(s, 1, IF Len(s) < n THEN Len(s) ELSE n)

\* s[n:]
Drop(s, n) == SubSeq(s, n + 1, Len(s))

\* s.startswith(p)
StartsWith(s, p) == Len(p) <= Len(s) /\ SubSeq(s, 1, Len(p)) = p

\* sub in s  (str.contains with a pattern of plain characters)
Contains(s, sub) == \E i \in 0..(Len(s) - Len(sub)) : SubSeq(s, i + 1, i + Len(sub)) = sub

\* s.replace(old, new), old non-empty: leftmost non-overlapping occurrences
RECURSIVE Replace(_, _, _)
Replace(s, old, new) ==
    IF Len(s) = 0 THEN <<>>
    ELSE IF StartsWith(s, old) THEN new \o Replace(Drop(s, Len(old)), old, new)
    ELSE <<s[1]>> \o Replace(Drop(s, 1), old, new)

\* s.split(sep)[0], sep one character
RECURSIVE SplitFirst(_, _)
SplitFirst(s, sep) ==
    IF Len(s) = 0 \/ s[1] = sep THEN <<>>
    ELSE <<s[1]>> \o SplitFirst(Drop(s, 1), sep)

\* a < b for Python strings: lexicographic by code point
RECURSIVE StrLess(_, _)
StrLess(a, b) ==
    IF Len(b) = 0 THEN FALSE
    ELSE IF Len(a) = 0 THEN TRUE
    ELSE IF a[1] = b[1] THEN StrLess(Drop(a, 1), Drop(b, 1))
    ELSE Ord(a[1]) < Ord(b[1])

StrLeq(a, b) == a = b \/ StrLess(a, b)

\* int(x / d) for d > 0: Python's int() truncates toward zero
Trunc(x, d) == IF x >= 0 THEN x \div d ELSE -((-x) \div d)

Range(s) == {s[i] : i \in 1..Len(s)}

\* the value of Body at the value of x, x computed once
With(x, Body(_)) == CHOOSE r \in {Body(v) : v \in {x}} : TRUE

-----------------------------------------------------------------------------
(* FEED_URLS                                                               *)

GTFS == <<"g", "t", "f", "s">>
Url(suffix) == GTFS \o suffix

FeedKeys ==
    << <<"1", "-", "2", "-", "3">>,
       <<"4", "-", "5", "-", "6">>,
       <<"7">>,
       <<"A", "-", "C", "-", "E">>,
       <<"B", "-", "D", "-", "F", "-", "M">>,
       <<"G">>,
       <<"J", "-", "Z">>,
       <<"L">>,
       <<"N", "-", "Q", "-", "R", "-", "W">>,
       <<"S">> >>

\* FEED_URLS[key]: the last path component of the URL after "nyct%2F"
FEED_URLS(key) ==
    CASE key = FeedKeys[1] -> Url(<<>>)
      [] key = FeedKeys[2] -> Url(<<>>)
      [] key = FeedKeys[3] -> Url(<<>>)
      [] key = FeedKeys[4] -> Url(<<"-", "a", "c", "e">>)
      [] key = FeedKeys[5] -> Url(<<"-", "b", "d", "f", "m">>)
      [] key = FeedKeys[6] -> Url(<<"-", "g">>)
      [] key = FeedKeys[7] -> Url(<<"-", "j", "z">>)
      [] key = FeedKeys[8] -> Url(<<"-", "l">>)
      [] key = FeedKeys[9] -> Url(<<"-", "n", "q", "r", "w">>)
      [] key = FeedKeys[10] -> Url(<<>>)

-----------------------------------------------------------------------------
(* get_stops_for_line                                                      *)

\* feed_key.lower().replace('gtfs-', '').split('-')[0]
LinePrefix(feed_key) == SplitFirst(Replace(Lower(feed_key), GTFS \o <<"-">>, <<>>), "-")

\* routes[routes['route_id'].str.lower().str.contains(prefix)]['route_id'].unique()
MatchingRouteIds(prefix, routes) ==
    {routes[i].route_id : i \in {j \in 1..Len(routes) : Contains(Lower(routes[j].route_id), prefix)}}

\* trips[trips['route_id'].isin(route_ids)]['trip_id'].unique()
TripIdsOfRoutes(route_ids, trips) ==
    {trips[i].trip_id : i \in {j \in 1..Len(trips) : trips[j].route_id \in route_ids}}

\* stop_times[stop_times['trip_id'].isin(trip_ids)]['stop_id'].unique()
StopIdsOfTrips(trip_ids, stop_times) ==
    {stop_times[i].stop_id : i \in {j \in 1..Len(stop_times) : stop_times[j].trip_id \in trip_ids}}

DropLast(rows) ==
    LET keep(i) == \A j \in (i + 1)..Len(rows) : rows[j].stop_name # rows[i].stop_name
        idx == SelectSeq([i \in 1..Len(rows) |-> i], keep)
    IN  [k \in 1..Len(idx) |-> rows[idx[k]]]

\* DataFrame.drop_duplicates(subset='stop_name'): keeps the first row of each name
DropDuplicates(rows) ==
    LET keep(i) == \A j \in 1..(i - 1) : rows[j].stop_name # rows[i].stop_name
        idx == SelectSeq([i \in 1..Len(rows) |-> i], keep)
    IN  [k \in 1..Len(idx) |-> rows[idx[k]]]

\* insert row r into the sorted sequence s, after the rows not greater than it
RECURSIVE InsertSorted(_, _)
InsertSorted(s, r) ==
    IF Len(s) = 0 THEN <<r>>
    ELSE IF StrLess(r.stop_name, s[1].stop_name) THEN <<r>> \o s
    ELSE <<s[1]>> \o InsertSorted(Drop(s, 1), r)

RECURSIVE SortFrom(_, _)
SortFrom(sorted, rest) ==
    IF Len(rest) = 0 THEN sorted
    ELSE SortFrom(InsertSorted(sorted, rest[1]), Drop(rest, 1))

\* DataFrame.sort_values(by='stop_name'), ascending
SortValues(rows) == SortFrom(<<>>, rows)

get_stops_for_line(feed_key, routes, trips, stop_times, stops) ==
    LET prefix == LinePrefix(feed_key)
        route_ids == MatchingRouteIds(prefix, routes)
        trip_ids == TripIdsOfRoutes(route_ids, trips)
        stop_ids == StopIdsOfTrips(trip_ids, stop_times)
        filtered_stops == DropDuplicates(SelectSeq(stops, LAMBDA r : r.stop_id \in stop_ids))
    IN  SortValues(filtered_stops)

\* line_stops['stop_name'].unique(): the names in row order, first occurrences
StopNames(rows) == LET d == DropDuplicates(rows) IN [i \in 1..Len(d) |-> d[i].stop_name]

-----------------------------------------------------------------------------
(* Clock and time formatting                                               *)

\* pytz.timezone('America/New_York'): the zone's transitions as pytz holds them, each the
\* epoch second from which an offset from UTC (in seconds) applies, in increasing order.
\* pytz reads the zone's 32-bit table, which opens at -2^31 (December 1901) with
\* Eastern Standard Time and ends in 2037.
nyc_tz ==
    <<
       <<-2147483647 - 1, -18000>>,
       <<-1633280400, -14400>>, <<-1615140000, -18000>>, <<-1601830800, -14400>>, <<-1583690400, -18000>>,
       <<-1570381200, -14400>>, <<-1551636000, -18000>>, <<-1536512400, -14400>>, <<-1523210400, -18000>>,
       <<-1504458000, -14400>>, <<-1491760800, -18000>>, <<-1473008400, -14400>>, <<-1459706400, -18000>>,
       <<-1441558800, -14400>>, <<-1428256800, -18000>>, <<-1410109200, -14400>>, <<-1396807200, -18000>>,
       <<-1378659600, -14400>>, <<-1365357600, -18000>>, <<-1347210000, -14400>>, <<-1333908000, -18000>>,
       <<-1315155600, -14400>>, <<-1301853600, -18000>>, <<-1283706000, -14400>>, <<-1270404000, -18000>>,
       <<-1252256400, -14400>>, <<-1238954400, -18000>>, <<-1220806800, -14400>>, <<-1207504800, -18000>>,
       <<-1189357200, -14400>>, <<-1176055200, -18000>>, <<-1157302800, -14400>>, <<-1144605600, -18000>>,
       <<-1125853200, -14400>>, <<-1112551200, -18000>>, <<-1094403600, -14400>>, <<-1081101600, -18000>>,
       <<-1062954000, -14400>>, <<-1049652000, -18000>>, <<-1031504400, -14400>>, <<-1018202400, -18000>>,
       <<-1000054800, -14400>>, <<-986752800, -18000>>, <<-968000400, -14400>>, <<-955303200, -18000>>,
       <<-936550800, -14400>>, <<-923248800, -18000>>, <<-905101200, -14400>>, <<-891799200, -18000>>,
       <<-880218000, -14400>>, <<-765396000, -18000>>, <<-747248400, -14400>>, <<-733946400, -18000>>,
       <<-715798800, -14400>>, <<-702496800, -18000>>, <<-684349200, -14400>>, <<-671047200, -18000>>,
       <<-652899600, -14400>>, <<-639597600, -18000>>, <<-620845200, -14400>>, <<-608148000, -18000>>,
       <<-589395600, -14400>>, <<-576093600, -18000>>, <<-557946000, -14400>>, <<-544644000, -18000>>,
       <<-526496400, -14400>>, <<-513194400, -18000>>, <<-495046800, -14400>>, <<-481744800, -18000>>,
       <<-463597200, -14400>>, <<-447271200, -18000>>, <<-431542800, -14400>>, <<-415821600, -18000>>,
       <<-400093200, -14400>>, <<-384372000, -18000>>, <<-368643600, -14400>>, <<-352922400, -18000>>,
       <<-337194000, -14400>>, <<-321472800, -18000>>, <<-305744400, -14400>>, <<-289418400, -18000>>,
       <<-273690000, -14400>>, <<-257968800, -18000>>, <<-242240400, -14400>>, <<-226519200, -18000>>,
       <<-210790800, -14400>>, <<-195069600, -18000>>, <<-179341200, -14400>>, <<-163620000, -18000>>,
       <<-147891600, -14400>>, <<-131565600, -18000>>, <<-116442000, -14400>>, <<-100116000, -18000>>,
       <<-84387600, -14400>>, <<-68666400, -18000>>, <<-52938000, -14400>>, <<-37216800, -18000>>,
       <<-21488400, -14400>>, <<-5767200, -18000>>, <<9961200, -14400>>, <<25682400, -18000>>,
       <<41410800, -14400>>, <<57736800, -18000>>, <<73465200, -14400>>, <<89186400, -18000>>,
       <<104914800, -14400>>, <<120636000, -18000>>, <<126687600, -14400>>, <<152085600, -18000>>,
       <<162370800, -14400>>, <<183535200, -18000>>, <<199263600, -14400>>, <<215589600, -18000>>,
       <<230713200, -14400>>, <<247039200, -18000>>, <<262767600, -14400>>, <<278488800, -18000>>,
       <<294217200, -14400>>, <<309938400, -18000>>, <<325666800, -14400>>, <<341388000, -18000>>,
       <<357116400, -14400>>, <<372837600, -18000>>, <<388566000, -14400>>, <<404892000, -18000>>,
       <<420015600, -14400>>, <<436341600, -18000>>, <<452070000, -14400>>, <<467791200, -18000>>,
       <<483519600, -14400>>, <<499240800, -18000>>, <<514969200, -14400>>, <<530690400, -18000>>,
       <<544604400, -14400>>, <<562140000, -18000>>, <<576054000, -14400>>, <<594194400, -18000>>,
       <<607503600, -14400>>, <<625644000, -18000>>, <<638953200, -14400>>, <<657093600, -18000>>,
       <<671007600, -14400>>, <<688543200, -18000>>, <<702457200, -14400>>, <<719992800, -18000>>,
       <<733906800, -14400>>, <<752047200, -18000>>, <<765356400, -14400>>, <<783496800, -18000>>,
       <<796806000, -14400>>, <<814946400, -18000>>, <<828860400, -14400>>, <<846396000, -18000>>,
       <<860310000, -14400>>, <<877845600, -18000>>, <<891759600, -14400>>, <<909295200, -18000>>,
       <<923209200, -14400>>, <<941349600, -18000>>, <<954658800, -14400>>, <<972799200, -18000>>,
       <<986108400, -14400>>, <<1004248800, -18000>>, <<1018162800, -14400>>, <<1035698400, -18000>>,
       <<1049612400, -14400>>, <<1067148000, -18000>>, <<1081062000, -14400>>, <<1099202400, -18000>>,
       <<1112511600, -14400>>, <<1130652000, -18000>>, <<1143961200, -14400>>, <<1162101600, -18000>>,
       <<1173596400, -14400>>, <<1194156000, -18000>>, <<1205046000, -14400>>, <<1225605600, -18000>>,
       <<1236495600, -14400>>, <<1257055200, -18000>>, <<1268550000, -14400>>, <<1289109600, -18000>>,
       <<1299999600, -14400>>, <<1320559200, -18000>>, <<1331449200, -14400>>, <<1352008800, -18000>>,
       <<1362898800, -14400>>, <<1383458400, -18000>>, <<1394348400, -14400>>, <<1414908000, -18000>>,
       <<1425798000, -14400>>, <<1446357600, -18000>>, <<1457852400, -14400>>, <<1478412000, -18000>>,
       <<1489302000, -14400>>, <<1509861600, -18000>>, <<1520751600, -14400>>, <<1541311200, -18000>>,
       <<1552201200, -14400>>, <<1572760800, -18000>>, <<1583650800, -14400>>, <<1604210400, -18000>>,
       <<1615705200, -14400>>, <<1636264800, -18000>>, <<1647154800, -14400>>, <<1667714400, -18000>>,
       <<1678604400, -14400>>, <<1699164000, -18000>>, <<1710054000, -14400>>, <<1730613600, -18000>>,
       <<1741503600, -14400>>, <<1762063200, -18000>>, <<1772953200, -14400>>, <<1793512800, -18000>>,
       <<1805007600, -14400>>, <<1825567200, -18000>>, <<1836457200, -14400>>, <<1857016800, -18000>>,
       <<1867906800, -14400>>, <<1888466400, -18000>>, <<1899356400, -14400>>, <<1919916000, -18000>>,
       <<1930806000, -14400>>, <<1951365600, -18000>>, <<1962860400, -14400>>, <<1983420000, -18000>>,
       <<1994310000, -14400>>, <<2014869600, -18000>>, <<2025759600, -14400>>, <<2046319200, -18000>>,
       <<2057209200, -14400>>, <<2077768800, -18000>>, <<2088658800, -14400>>, <<2109218400, -18000>>,
       <<2120108400, -14400>>, <<2140668000, -18000>>
    >>

\* local mean time, which pytz rounds to the minute: the offset of every instant before
\* the first transition
LMT == -17760

\* the number of the transitions tz at or before the instant t, known to be in lo..hi
RECURSIVE Passed(_, _, _, _)
Passed(tz, t, lo, hi) ==
    IF lo = hi THEN lo
    ELSE IF ~Before(t, At(tz[(lo + hi + 1) \div 2][1]))
    THEN Passed(tz, t, (lo + hi + 1) \div 2, hi)
    ELSE Passed(tz, t, lo, ((lo + hi + 1) \div 2) - 1)

\* the offset from UTC that nyc_tz gives the instant t: that of the last transition at or
\* before t (pytz knows no transition after its last one)
UtcOffset(t) ==
    With(nyc_tz, LAMBDA tz :
        IF Before(t, At(tz[1][1])) THEN LMT ELSE tz[Passed(tz, t, 1, Len(tz))][2])

SecondsPerMinute == 60

DigitChars == <<"0", "1", "2", "3", "4", "5", "6", "7", "8", "9">>
TwoDigits(n) == <<DigitChars[(n \div 10) + 1], DigitChars[(n % 10) + 1]>>

\* datetime.min and datetime.max: the days of 0001-01-01 and of 9999-12-31
MinDay == -719162
MaxDay == 2932896

\* the C library's gmtime fails when the year does not fit its int tm_year: for every
\* instant from day 784352270737 on and for every instant before day -784352321872
GmtimeFails(t) ==
    LET thousands == t[1] \div 1000
        rest == t[1] % 1000
    IN  \/ thousands > 784352270
        \/ thousands = 784352270 /\ rest >= 737
        \/ thousands < -784352322
        \/ thousands = -784352322 /\ rest < 128

\* datetime.fromtimestamp(t, tz=nyc_tz): the local date and time as an instant, or the
\* exception raised.  The UTC date is built first (OSError where gmtime fails, ValueError
\* for a year outside 1..9999); pytz's fromutc then adds the zone's offset to it
\* (OverflowError when the sum leaves datetime's range).
fromtimestamp(t) ==
    IF GmtimeFails(t) THEN [raised |-> "OSError"]
    ELSE IF t[1] < MinDay \/ t[1] > MaxDay THEN [raised |-> "ValueError"]
    ELSE With(Plus(t, UtcOffset(t)), LAMBDA local :
             IF local[1] < MinDay \/ local[1] > MaxDay
             THEN [raised |-> "OverflowError"]
             ELSE [raised |-> "none", local |-> local])

\* strftime('%I:%M:%S %p') of a local time, given as a second of the day
ClockText(local) ==
    LET hour == local \div 3600
        hour12 == IF hour % 12 = 0 THEN 12 ELSE hour % 12
    IN  TwoDigits(hour12) \o <<":">> \o TwoDigits((local \div 60) % 60) \o <<":">>
        \o TwoDigits(local % 60) \o <<" ">> \o (IF hour < 12 THEN <<"A", "M">> ELSE <<"P", "M">>)

\* datetime.fromtimestamp(t, tz=nyc_tz).strftime('%I:%M:%S %p'): the text, or the
\* exception that fromtimestamp raises
Strftime(t) ==
    With(fromtimestamp(t), LAMBDA dt :
        IF dt.raised # "none"
        THEN [raised |-> dt.raised, text |-> <<>>]
        ELSE [raised |-> "none", text |-> ClockText(dt.local[2])])

\* t > now, for the instant t and the clock reading now in ticks of 1/NowRes second
After(t, now) ==
    \/ t[1] > now \div (SecondsPerDay * NowRes)
    \/ /\ t[1] = now \div (SecondsPerDay * NowRes)
       /\ t[2] * NowRes > now % (SecondsPerDay * NowRes)

\* int((t - now) / 60), now in ticks of 1/NowRes second
MinutesAway(t, now) ==
    Trunc((t[1] * SecondsPerDay + t[2]) * NowRes - now, SecondsPerMinute * NowRes)

-----------------------------------------------------------------------------
(* parse_feed                                                              *)

\* stop_data[stop_data['stop_name'] == name]['stop_id'].values non-empty
HasStopNamed(stop_data, name) == \E i \in 1..Len(stop_data) : stop_data[i].stop_name = name

\* stop_data[stop_data['stop_name'] == name]['stop_id'].values[0][:3]
BaseCode(stop_data, name) ==
    LET first == CHOOSE i \in 1..Len(stop_data) :
                    /\ stop_data[i].stop_name = name
                    /\ \A j \in 1..(i - 1) : stop_data[j].stop_name # name
    IN  Take(stop_data[first].stop_id, 3)

ResolveStartOnly(stop_data, start_stop_, end_stop_) ==
    IF HasStopNamed(stop_data, start_stop_)
    THEN [ok |-> TRUE, start_base |-> BaseCode(stop_data, start_stop_),
          end_base |-> IF HasStopNamed(stop_data, end_stop_)
                       THEN BaseCode(stop_data, end_stop_) ELSE <<>>]
    ELSE [ok |-> FALSE]

\* the try block of lines 77-82: both base codes, or IndexError caught (ok false)
ResolveStops(stop_data, start_stop_, end_stop_) ==
    IF HasStopNamed(stop_data, start_stop_) /\ HasStopNamed(stop_data, end_stop_)
    THEN [ok |-> TRUE, start_base |-> BaseCode(stop_data, start_stop_),
          end_base |-> BaseCode(stop_data, end_stop_)]
    ELSE [ok |-> FALSE]

\* fetch_subway_feed returns a FeedMessage, or None when fetching or decoding raised
NoFeed == [is_none |-> TRUE]
FeedMessage(entities) == [is_none |-> FALSE, entity |-> entities]

\* a feed entity: whether it has a trip_update, and the trip_update's fields
Entity(has_tu, trip_id, route_id, has_rel, rel, updates) ==
    [has_trip_update |-> has_tu, trip_id |-> trip_id, route_id |-> route_id,
     has_rel |-> has_rel, rel |-> rel, stop_time_update |-> updates]

\* a stop_time_update: arrival.time, an instant, reads 0 when the arrival is absent or
\* carries no time
Update(stop_id, has_arrival, time) == [stop_id |-> stop_id, has_arrival |-> has_arrival, time |-> time]

FirstMatchStep(found, update, start_base, end_base) ==
    [start |-> IF found.start = NoneT /\ StartsWith(update.stop_id, start_base) /\ update.has_arrival
               THEN Some(update.time) ELSE found.start,
     end   |-> IF found.end = NoneT /\ StartsWith(update.stop_id, end_base) /\ update.has_arrival
               THEN Some(update.time) ELSE found.end]

\* one iteration of "for update in stop_updates": found is (found_start, found_end)
UpdateStep(found, update, start_base, end_base) ==
    [start |-> IF StartsWith(update.stop_id, start_base) /\ update.has_arrival
               THEN Some(update.time) ELSE found.start,
     end   |-> IF StartsWith(update.stop_id, end_base) /\ update.has_arrival
               THEN Some(update.time) ELSE found.end]

NotFound == [start |-> NoneT, end |-> NoneT]

RECURSIVE ScanUpdates(_, _, _, _)
\* the whole loop over stop_updates
ScanUpdates(found, updates, start_base, end_base) ==
    IF Len(updates) = 0 THEN found
    ELSE ScanUpdates(UpdateStep(found, updates[1], start_base, end_base),
                     Drop(updates, 1), start_base, end_base)

QualifiesIgnoringNow(found, now) ==
    /\ TruthyTime(found.start)
    /\ TruthyTime(found.end)
    /\ Before(found.start[1], found.end[1])

\* found_start and found_end and found_start < found_end and found_start > now
Qualifies(found, now) ==
    /\ TruthyTime(found.start)
    /\ TruthyTime(found.end)
    /\ Before(found.start[1], found.end[1])
    /\ After(found.start[1], now)

\* delay: the schedule_relationship value when the field is present, else None
Delay(entity) == IF entity.has_rel THEN Some(entity.rel) ELSE NoneT

StatusByPresence(entity) == IF entity.has_rel THEN "Delayed" ELSE "On Time"

\* "Delayed" if delay else "On Time"
Status(entity) == IF Truthy(Delay(entity)) THEN "Delayed" ELSE "On Time"

\* the dict appended to data, arrival_time and destination_time being the two texts
ArrivalRecord(entity, start_stop_, end_stop_, arrival_time, destination_time, found, now) ==
    [Train |-> entity.route_id,
     From |-> start_stop_,
     To |-> end_stop_,
     Arrival_Time_Exact |-> arrival_time,
     Arriving_In |-> <<MinutesAway(found.start[1], now), " min">>,
     Destination_Arrival_Time |-> destination_time,
     Status |-> Status(entity),
     Trip_ID |-> entity.trip_id]

\* lines 112-127, after the updates of an entity were scanned: data after them, and the
\* exception raised, if any, by the formatting of found_start (line 114) or, after it,
\* of found_end (line 115), which leaves data as it was
EmitRecord(data, entity, start_stop_, end_stop_, found, now) ==
    IF ~Qualifies(found, now) THEN [data |-> data, raised |-> "none"]
    ELSE
    With(Strftime(found.start[1]), LAMBDA arrival_time :
    With(Strftime(found.end[1]), LAMBDA destination_time :
        IF arrival_time.raised # "none" THEN [data |-> data, raised |-> arrival_time.raised]
        ELSE IF destination_time.raised # "none"
        THEN [data |-> data, raised |-> destination_time.raised]
        ELSE [data |-> Append(data, ArrivalRecord(entity, start_stop_, end_stop_,
                                                  arrival_time.text, destination_time.text,
                                                  found, now)),
              raised |-> "none"]))

\* the body of "for entity in feed.entity" for one entity: data after it, and the
\* exception raised in it, if any
EntityStep(data, entity, updates, start_stop_, end_stop_, start_base, end_base, now) ==
    IF ~entity.has_trip_update THEN [data |-> data, raised |-> "none"]
    ELSE EmitRecord(data, entity, start_stop_, end_stop_,
                    ScanUpdates(NotFound, updates, start_base, end_base), now)

RECURSIVE ScanEntities(_, _, _, _, _, _, _)
\* the whole loop over feed.entity, which an exception ends
ScanEntities(data, entities, start_stop_, end_stop_, start_base, end_base, now) ==
    IF Len(entities) = 0 THEN [data |-> data, raised |-> "none"]
    ELSE LET step == EntityStep(data, entities[1], entities[1].stop_time_update,
                                start_stop_, end_stop_, start_base, end_base, now)
         IN  IF step.raised # "none" THEN step
             ELSE ScanEntities(step.data, Drop(entities, 1), start_stop_, end_stop_,
                               start_base, end_base, now)

StopsNotFoundMsg == "Selected stops not found in GTFS data."

\* parse_feed(feed, stop_data, stop_id_to_name, start_stop, end_stop, trip_headsign_map)
\* with the clock reading now.  feed is NoFeed (None) or a FeedMessage.  The result
\* names what was returned (df), what st.error showed, and an exception left unhandled.
\* The headsign lookup of lines 93-99 feeds no output and is left out.
parse_feed(feed, stop_data, start_stop_, end_stop_, now) ==
    IF ~ResolveStops(stop_data, start_stop_, end_stop_).ok
    THEN [df |-> <<>>, errors |-> <<StopsNotFoundMsg>>, raised |-> "none"]
    ELSE IF feed.is_none
    THEN [df |-> <<>>, errors |-> <<>>, raised |-> "AttributeError"]
    ELSE LET scan == ScanEntities(<<>>, feed.entity, start_stop_, end_stop_,
                                  ResolveStops(stop_data, start_stop_, end_stop_).start_base,
                                  ResolveStops(stop_data, start_stop_, end_stop_).end_base, now)
         IN  IF scan.raised # "none"
             THEN [df |-> <<>>, errors |-> <<>>, raised |-> scan.raised]
             ELSE [df |-> scan.data, errors |-> <<>>, raised |-> "none"]

-----------------------------------------------------------------------------
(* plot_selected_trip_on_map                                               *)

\* stops[stops['stop_id'].str.startswith(update.stop_id[:3])]: the matching row numbers
StopMatch(stops, update) ==
    {i \in 1..Len(stops) : StartsWith(stops[i].stop_id, Take(update.stop_id, 3))}

\* the dict appended to trip_stops, from stop_match.iloc[0], arrival_time being the text
TripStop(stop_info, update, arrival_time, now) ==
    [stop_name |-> stop_info.stop_name,
     stop_lat |-> stop_info.stop_lat,
     stop_lon |-> stop_info.stop_lon,
     arrival |-> arrival_time,
     minutes_away |-> MinutesAway(update.time, now)]

\* one iteration of "for update in entity.trip_update.stop_time_update": trip_stops
\* after it, and the exception raised, if any, by the formatting of the arrival (line
\* 141), which leaves trip_stops as it was
TripStopStep(trip_stops, update, stops, now) ==
    LET stop_match == StopMatch(stops, update)
    IN  IF ~(stop_match # {} /\ update.has_arrival)
        THEN [trip_stops |-> trip_stops, raised |-> "none"]
        ELSE
        With(Strftime(update.time), LAMBDA arrival_time :
            IF arrival_time.raised # "none"
            THEN [trip_stops |-> trip_stops, raised |-> arrival_time.raised]
            ELSE [trip_stops |->
                      Append(trip_stops,
                             TripStop(stops[CHOOSE i \in stop_match : \A j \in stop_match : i <= j],
                                      update, arrival_time.text, now)),
                  raised |-> "none"])

RECURSIVE ScanTripUpdates(_, _, _, _)
\* the whole loop over the updates of the trip's entity, which an exception ends
ScanTripUpdates(trip_stops, updates, stops, now) ==
    IF Len(updates) = 0 THEN [trip_stops |-> trip_stops, raised |-> "none"]
    ELSE LET step == TripStopStep(trip_stops, updates[1], stops, now)
         IN  IF step.raised # "none" THEN step
             ELSE ScanTripUpdates(step.trip_stops, Drop(updates, 1), stops, now)

\* entity.HasField('trip_update') and entity.trip_update.trip.trip_id == trip_id
IsTrip(entity, trip_id) == entity.has_trip_update /\ entity.trip_id = trip_id

RECURSIVE ScanForTrip(_, _, _, _)
\* "for entity in feed.entity": the first entity of the trip is scanned, then break
ScanForTrip(entities, trip_id, stops, now) ==
    IF Len(entities) = 0 THEN [trip_stops |-> <<>>, raised |-> "none"]
    ELSE IF IsTrip(entities[1], trip_id)
    THEN ScanTripUpdates(<<>>, entities[1].stop_time_update, stops, now)
    ELSE ScanForTrip(Drop(entities, 1), trip_id, stops, now)

NoStopsMsg == "No stops found for selected trip."

\* f"{stop['stop_name']}: {stop['arrival']} (in {stop['minutes_away']} min)"
Popup(stop) == <<stop.stop_name, ": ", stop.arrival, " (in ", stop.minutes_away, " min)">>

\* return None
NoMap == [is_none |-> TRUE]

\* lines 151-164: the warning and None, or the map centred on the first stop
MapOf(trip_stops) ==
    IF trip_stops = <<>>
    THEN [map |-> NoMap, warnings |-> <<NoStopsMsg>>]
    ELSE [map |-> [is_none |-> FALSE,
                   location |-> <<trip_stops[1].stop_lat, trip_stops[1].stop_lon>>,
                   markers |-> [i \in 1..Len(trip_stops) |->
                                   [location |-> <<trip_stops[i].stop_lat, trip_stops[i].stop_lon>>,
                                    popup |-> Popup(trip_stops[i])]]],
          warnings |-> <<>>]

\* plot_selected_trip_on_map(trip_id, feed, stops) with the clock reading now
plot_selected_trip_on_map(trip_id, feed, stops, now) ==
    IF feed.is_none
    THEN [trip_stops |-> <<>>, map |-> NoMap, warnings |-> <<>>, raised |-> "AttributeError"]
    ELSE LET scan == ScanForTrip(feed.entity, trip_id, stops, now)
         IN  IF scan.raised # "none"
             THEN [trip_stops |-> <<>>, map |-> NoMap, warnings |-> <<>>, raised |-> scan.raised]
             ELSE [trip_stops |-> scan.trip_stops, raised |-> "none"] @@ MapOf(scan.trip_stops)

-----------------------------------------------------------------------------
(* Static data drawn for the checks                                        *)

Route(id) == [route_id |-> id]
Trip(id, route, headsign) == [trip_id |-> id, route_id |-> route, trip_headsign |-> headsign]
StopTime(trip, stop) == [trip_id |-> trip, stop_id |-> stop]
Stop(id, name, lat, lon) == [stop_id |-> id, stop_name |-> name, stop_lat |-> lat, stop_lon |-> lon]

id101 == <<"1", "0", "1">>
id101N == <<"1", "0", "1", "N">>
id101S == <<"1", "0", "1", "S">>
id104N == <<"1", "0", "4", "N">>
id104S == <<"1", "0", "4", "S">>
idA02N == <<"A", "0", "2", "N">>
id9 == <<"9">>

nmAsh == <<"A", "s", "h">>
nmAs == <<"A", "s">>
nmBay == <<"B", "a", "y">>
nmash == <<"a", "s", "h">>
nmElm == <<"E", "l", "m">>

rt1 == <<"1">>
rtA == <<"A">>
rtGS == <<"G", "S">>

trT1 == <<"T", "1">>
trT2 == <<"T", "2">>
trT3 == <<"T", "3">>

RoutesTable == <<Route(rt1), Route(rtA), Route(rtGS)>>
TripsTable == <<Trip(trT1, rt1, nmBay), Trip(trT2, rtA, nmAsh), Trip(trT3, rtGS, nmElm)>>

StopTimeTables ==
    { <<StopTime(trT1, id101N), StopTime(trT1, id104N), StopTime(trT1, id101S),
        StopTime(trT2, idA02N), StopTime(trT3, id104S)>>,
      <<StopTime(trT1, id104S), StopTime(trT2, id101S), StopTime(trT2, id104N),
        StopTime(trT3, idA02N), StopTime(trT3, id101N)>>,
      <<StopTime(trT2, id101N), StopTime(trT2, id101S), StopTime(trT2, id104N),
        StopTime(trT2, id104S), StopTime(trT2, idA02N)>> }

StopRows ==
    { Stop(id101N, nmBay, 1, 1), Stop(id101S, nmBay, 1, 2), Stop(id104N, nmAsh, 2, 1),
      Stop(id104S, nmAs, 2, 2), Stop(idA02N, nmash, 3, 3) }

RECURSIVE SeqsUpTo(_, _)
\* the sequences of at most n elements of S
SeqsUpTo(S, n) ==
    IF n = 0 THEN {<<>>}
    ELSE LET shorter == SeqsUpTo(S, n - 1)
         IN  shorter \cup {Append(s, x) : s \in shorter, x \in S}

\* the stops tables drawn: rows of StopRows, none twice, in any order
StopsTables == {s \in SeqsUpTo(StopRows, MaxStops) : Cardinality(Range(s)) = Len(s)}

-----------------------------------------------------------------------------
(* Frames at rest                                                          *)

IdleFrame == [pc |-> "idle"]

NotCalled == [called |-> FALSE]

\* what a run has done before its first fetch
Quiet ==
    [fetches |-> 0, search |-> NotCalled, map_step |-> NotCalled, map |-> NoMap, messages |-> <<>>]

\* a session in which the script has not run yet
NoRun == [outcome |-> "init", page |-> FALSE] @@ Quiet

AppInit ==
    /\ cache = [state |-> "miss"]
    /\ builds = 0
    /\ feed_name = None
    /\ start_stop = None
    /\ end_stop = None
    /\ session_state = <<>>
    /\ run = NoRun

-----------------------------------------------------------------------------
(* load_gtfs_static_data under st.cache_resource                           *)

\* dict(zip(trips['trip_id'], trips['trip_headsign'])): the last row of a trip_id wins
HeadsignMap(trips) ==
    [id \in {trips[i].trip_id : i \in 1..Len(trips)} |->
        trips[CHOOSE i \in 1..Len(trips) :
                 /\ trips[i].trip_id = id
                 /\ \A j \in (i + 1)..Len(trips) : trips[j].trip_id # id].trip_headsign]

\* return None, None, None, None, None
NoneTuple == [is_none |-> TRUE]

\* return routes, trips, stop_times, stops, trip_headsign_map
StaticData(archive) ==
    [is_none |-> FALSE, routes |-> archive.routes, trips |-> archive.trips,
     stop_times |-> archive.stop_times, stops |-> archive.stops,
     trip_headsign_map |-> HeadsignMap(archive.trips)]

DownloadFailedMsg == "Failed to download GTFS static data."

\* the function body, lines 39-52, for one outcome of the download: the value returned
\* and the messages shown, or raised when requests.get or the archive's parsing raises
LoadBody(download) ==
    CASE download.kind = "raise" -> [raised |-> TRUE]
      [] download.kind = "non200" ->
            [raised |-> FALSE, built |-> FALSE, value |-> NoneTuple,
             messages |-> <<DownloadFailedMsg>>]
      [] download.kind = "ok" ->
            [raised |-> FALSE, built |-> TRUE, value |-> StaticData(download.archive),
             messages |-> <<>>]

LoadStaticUncached(cache_, builds_, download) ==
    LET r == LoadBody(download)
    IN  IF r.raised
        THEN [raised |-> TRUE, cache |-> cache_, builds |-> builds_]
        ELSE [raised |-> FALSE, value |-> r.value, messages |-> r.messages,
              cache |-> [state |-> "hit", value |-> r.value, messages |-> r.messages],
              builds |-> IF r.built THEN builds_ + 1 ELSE builds_]

\* load_gtfs_static_data() as decorated: the cached value when there is one, with the
\* messages of the call that computed it shown again; otherwise the body runs, and what
\* it returns is cached (what it raises is not)
LoadStatic(cache_, builds_, download) ==
    IF cache_.state = "hit"
    THEN [raised |-> FALSE, value |-> cache_.value, messages |-> cache_.messages,
          cache |-> cache_, builds |-> builds_]
    ELSE LET r == LoadBody(download)
         IN  IF r.raised
             THEN [raised |-> TRUE, cache |-> cache_, builds |-> builds_]
             ELSE [raised |-> FALSE, value |-> r.value, messages |-> r.messages,
                   cache |-> [state |-> "hit", value |-> r.value, messages |-> r.messages],
                   builds |-> IF r.built THEN builds_ + 1 ELSE builds_]

-----------------------------------------------------------------------------
(* fetch_subway_feed                                                       *)

FetchErrorMsg(e) == "Error fetching feed: " \o e

\* fetch_subway_feed(feed_url) for one outcome of urlopen, read and ParseFromString: the
\* decoded feed, or None with the error shown when any of them raises e
fetch_subway_feed(response) ==
    IF response.kind = "raise"
    THEN [feed |-> NoFeed, messages |-> <<FetchErrorMsg(response.e)>>]
    ELSE [feed |-> response.feed, messages |-> <<>>]

-----------------------------------------------------------------------------
(* The script, lines 30-35 and 167-203: one run from the top, to its end   *)
(* or to the point where Streamlit stops it.  A user action that arrives   *)
(* while a run is in progress stops that run at the next command that      *)
(* yields to the runtime: an access of st.session_state or a call that     *)
(* shows an element.                                                       *)

\* the yielding commands, in script order, each named by the script line that reaches it
\* and, for a command inside a function, the line of the command
YieldPoints ==
    << "31", "32", "34", "35", "167", "168", "170", "173:42", "180", "181", "183",
       "184:70", "185:80", "186", "188", "189", "191", "192",
       "194", "195", "197", "198", "200", "200:70", "199:152", "203" >>

\* the run is not stopped
NoStop == "none"

\* the place of a yielding command in the run; that of NoStop is past them all
Order(p) ==
    IF p = NoStop THEN Len(YieldPoints) + 1
    ELSE CHOOSE i \in 1..Len(YieldPoints) : YieldPoints[i] = p

Put(ss, key, value) == (key :> value) @@ ss

\* lines 31-35
SessionInit(ss) ==
    LET s1 == IF "df" \in DOMAIN ss THEN ss ELSE Put(ss, "df", <<>>)
    IN  IF "selected_trip_id" \in DOMAIN s1 THEN s1 ELSE Put(s1, "selected_trip_id", None)

\* the run is stopped at one of the accesses of lines 31-35
StopsInInit(ss, stop) ==
    \/ stop = "31"
    \/ stop = "32" /\ "df" \notin DOMAIN ss
    \/ stop = "34"
    \/ stop = "35" /\ "selected_trip_id" \notin DOMAIN ss

\* lines 31-35 up to that access
SessionInitUpTo(ss, stop) ==
    IF stop \in {"31", "32"} \/ "df" \in DOMAIN ss THEN ss ELSE Put(ss, "df", <<>>)

\* lines 186-192 as the assignments they make, in order
SearchAssignments(df) ==
    IF Len(df) > 0
    THEN << <<"df", df>>, <<"selected_trip_id", df[1].Trip_ID>>, <<"show_map", TRUE>> >>
    ELSE << <<"df", df>>, <<"selected_trip_id", None>>, <<"show_map", FALSE>> >>

\* the first n of them made
RECURSIVE SearchUpdateUpTo(_, _, _)
SearchUpdateUpTo(ss, df, n) ==
    IF n = 0 THEN ss
    ELSE Put(SearchUpdateUpTo(ss, df, n - 1), SearchAssignments(df)[n][1], SearchAssignments(df)[n][2])

\* lines 186-192
SearchUpdate(ss, df) == SearchUpdateUpTo(ss, df, 3)

\* the number of assignments of lines 186-192 made before a stop at one of them
StoredBefore(df, stop) ==
    CASE stop = "186" -> 0
      [] stop = (IF Len(df) > 0 THEN "188" ELSE "191") -> 1
      [] stop = (IF Len(df) > 0 THEN "189" ELSE "192") -> 2
      [] OTHER -> 3

\* truth value of session_state['selected_trip_id']: None and '' are false
TruthyStr(x) == x # None /\ Len(x) > 0

\* st.selectbox over options: the value chosen if it is an option, else the first
\* option, or None when there are no options
SelectBox(chosen, options) ==
    IF \E i \in 1..Len(options) : options[i] = chosen THEN chosen
    ELSE IF Len(options) = 0 THEN None ELSE options[1]

\* lines 194-203, for the session state ss of this run: what the run record gains
Render(ss, response, stops, now, stop) ==
    LET before(outcome) ==
            [outcome |-> outcome, fetched |-> 0, map_step |-> NotCalled, map |-> NoMap,
             messages |-> <<>>]
    IN  IF stop = "194" THEN before("stopped")
        ELSE IF Len(ss["df"]) = 0 THEN before("ok")
        ELSE IF stop \in {"195", "197"} THEN before("stopped")
        ELSE IF "show_map" \notin DOMAIN ss THEN before("KeyError")
        ELSE IF ~(ss["show_map"] /\ TruthyStr(ss["selected_trip_id"])) THEN before("ok")
        ELSE IF stop \in {"198", "200"} THEN before("stopped")
        ELSE
        With(fetch_subway_feed(response), LAMBDA f :
        IF stop = "200:70" /\ f.feed.is_none
        THEN [outcome |-> "stopped", fetched |-> 1, map_step |-> NotCalled, map |-> NoMap,
              messages |-> <<>>]
        ELSE
        With(plot_selected_trip_on_map(ss["selected_trip_id"], f.feed, stops, now), LAMBDA p :
        LET after(outcome, map, messages) ==
                [outcome |-> outcome, fetched |-> 1,
                 map_step |-> [called |-> TRUE, feed |-> f.feed, trip_id |-> ss["selected_trip_id"]],
                 map |-> map, messages |-> messages]
        IN  IF p.raised # "none"
            THEN after(p.raised \o " in plot_selected_trip_on_map", NoMap, f.messages)
            ELSE IF stop = (IF p.map.is_none THEN "199:152" ELSE "203")
            THEN after("stopped", NoMap, f.messages)
            ELSE after("ok", p.map, f.messages \o p.warnings)))

\* lines 184-203 of a run that has drawn the page: what the run stores and records
SearchAndRender(ss0, button, f1, parsed, response2, stops, now2, stop) ==
    LET searched == [fetches |-> 1, search |-> [called |-> TRUE, feed |-> f1.feed],
                     map_step |-> NotCalled, map |-> NoMap, messages |-> f1.messages]
    IN  IF button /\ stop = "184:70" /\ f1.feed.is_none
        THEN [session_state |-> ss0,
              run |-> [outcome |-> "stopped", page |-> TRUE, fetches |-> 1] @@ Quiet]
        ELSE IF button /\ parsed.raised # "none"
        THEN [session_state |-> ss0,
              run |-> [outcome |-> parsed.raised \o " in parse_feed", page |-> TRUE] @@ searched]
        ELSE IF button /\ stop = "185:80" /\ parsed.errors # <<>>
        THEN [session_state |-> ss0,
              run |-> [outcome |-> "stopped", page |-> TRUE] @@ searched]
        ELSE IF button /\ StoredBefore(parsed.df, stop) < 3
        THEN [session_state |-> SearchUpdateUpTo(ss0, parsed.df, StoredBefore(parsed.df, stop)),
              run |-> [outcome |-> "stopped", page |-> TRUE,
                       messages |-> f1.messages \o parsed.errors] @@ searched]
        ELSE
        With(IF button THEN SearchUpdate(ss0, parsed.df) ELSE ss0, LAMBDA ss1 :
        With(Render(ss1, response2, stops, now2, stop), LAMBDA r :
            [session_state |-> ss1,
             run |-> [outcome |-> r.outcome,
                      page |-> TRUE,
                      fetches |-> (IF button THEN 1 ELSE 0) + r.fetched,
                      search |-> IF button THEN [called |-> TRUE, feed |-> f1.feed]
                                 ELSE NotCalled,
                      map_step |-> r.map_step,
                      map |-> r.map,
                      messages |-> (IF button THEN f1.messages \o parsed.errors ELSE <<>>)
                                   \o r.messages]]))

\* One run of the script.  line: the line selectbox's value; from, to: the values chosen
\* in the two station selectboxes; button: whether "Search Trains" was pressed;
\* download: the outcome of the static download if it is attempted; response1,
\* response2: the outcomes of the fetches of the search handler and of the map step;
\* now1, now2: the clock read by parse_feed and by plot_selected_trip_on_map; stop: the
\* yielding command at which the run is stopped, if the run gets there, or NoStop.
Script(line, from, to, button, download, response1, response2, now1, now2, stop) ==
    LET stopped == [outcome |-> "stopped", page |-> run.page] @@ Quiet
        asked == [cache |-> cache, builds |-> builds, feed_name |-> line,
                  start_stop |-> from, end_stop |-> to]
    IN  IF StopsInInit(session_state, stop)
        THEN asked @@ [session_state |-> SessionInitUpTo(session_state, stop), run |-> stopped]
        ELSE IF stop \in {"167", "168", "170"}
        THEN asked @@ [session_state |-> SessionInit(session_state), run |-> stopped]
        ELSE
        With(SessionInit(session_state), LAMBDA ss0 :
        With(LoadStatic(cache, builds, download), LAMBDA load :
        LET base == [cache |-> load.cache, builds |-> load.builds, feed_name |-> line,
                     start_stop |-> start_stop, end_stop |-> end_stop, session_state |-> ss0]
            loaded == [cache |-> load.cache, builds |-> load.builds, feed_name |-> line]
        IN  IF load.raised
            THEN base @@ [run |-> [outcome |-> "exception in load_gtfs_static_data",
                                   page |-> FALSE] @@ Quiet]
            ELSE IF stop = "173:42" /\ load.messages # <<>>
            THEN asked @@ [session_state |-> ss0, run |-> stopped]
            ELSE IF load.value.is_none
            THEN base @@ [run |-> [outcome |-> "st.stop", page |-> FALSE,
                                   messages |-> load.messages] @@ Quiet]
            ELSE IF stop = "180"
            THEN loaded @@ [start_stop |-> from, end_stop |-> to, session_state |-> ss0,
                            run |-> stopped]
            ELSE
            With(get_stops_for_line(line, load.value.routes, load.value.trips,
                                    load.value.stop_times, load.value.stops), LAMBDA line_stops :
            With(StopNames(line_stops), LAMBDA options :
            With(SelectBox(from, options), LAMBDA s :
            With(SelectBox(to, options), LAMBDA e :
                IF stop = "181"
                THEN loaded @@ [start_stop |-> s, end_stop |-> to, session_state |-> ss0,
                                run |-> stopped]
                ELSE IF stop = "183"
                THEN loaded @@ [start_stop |-> s, end_stop |-> e, session_state |-> ss0,
                                run |-> stopped]
                ELSE
                With(fetch_subway_feed(response1), LAMBDA f1 :
                With(IF button THEN parse_feed(f1.feed, line_stops, s, e, now1)
                     ELSE [raised |-> "none", df |-> <<>>, errors |-> <<>>], LAMBDA parsed :
                    loaded @@ [start_stop |-> s, end_stop |-> e]
                    @@ SearchAndRender(ss0, button, f1, parsed, response2, load.value.stops,
                                       now2, stop)))))))))

-----------------------------------------------------------------------------
(* Specification SpecLine: one call of get_stops_for_line                  *)

InitLine ==
    /\ AppInit
    /\ pf = IdleFrame
    /\ tp = IdleFrame
    /\ \E key \in Range(FeedKeys), st \in StopTimeTables, s \in StopsTables :
          ls = [pc |-> "call", feed_key |-> key, routes |-> RoutesTable, trips |-> TripsTable,
                stop_times |-> st, stops |-> s]

CallGetStops ==
    /\ ls.pc = "call"
    /\ ls' = [ls EXCEPT !.pc = "done"] @@
             [result |-> get_stops_for_line(ls.feed_key, ls.routes, ls.trips, ls.stop_times, ls.stops)]
    /\ UNCHANGED <<appVars, pf, tp>>

NextLine == CallGetStops

SpecLine == InitLine /\ [][NextLine]_vars

\* the rows of the stops table served by a trip of a route matching the line label
ServedRows(f) ==
    {i \in 1..Len(f.stops) :
        \E r \in Range(f.routes), t \in Range(f.trips), st \in Range(f.stop_times) :
            /\ Contains(Lower(r.route_id), LinePrefix(f.feed_key))
            /\ t.route_id = r.route_id
            /\ st.trip_id = t.trip_id
            /\ st.stop_id = f.stops[i].stop_id}

\* C8: the result of get_stops_for_line has no two entries with the same stop name,
\* each entry is the first row (in dataset order) of the line's stops with its name,
\* every name of a stop served by a trip of a matching route appears, and the entries
\* are in non-decreasing order of stop name.
C8_StopsForLine ==
    ls.pc = "done" =>
        LET res == ls.result
            served == ServedRows(ls)
        IN  /\ \A a, b \in 1..Len(res) : a # b => res[a].stop_name # res[b].stop_name
            /\ \A a \in 1..Len(res) :
                  \E i \in served :
                      /\ res[a] = ls.stops[i]
                      /\ \A j \in served : ls.stops[j].stop_name = res[a].stop_name => i <= j
            /\ \A i \in served : \E a \in 1..Len(res) : res[a].stop_name = ls.stops[i].stop_name
            /\ \A a \in 1..(Len(res) - 1) : StrLeq(res[a].stop_name, res[a + 1].stop_name)

\* C8 witness: a call returned at least two stops, after dropping a second row of a name
\* and reordering rows that were out of name order in the dataset.
C8_Witness ==
    /\ ls.pc = "done"
    /\ Len(ls.result) >= 2
    /\ \E i, j \in ServedRows(ls) : i < j /\ ls.stops[i].stop_name = ls.stops[j].stop_name
    /\ \E i, j \in ServedRows(ls) : i < j /\ StrLess(ls.stops[j].stop_name, ls.stops[i].stop_name)

-----------------------------------------------------------------------------
(* Specification SpecMatch: one call of parse_feed, stepped through its    *)
(* loops.  The feed is read as the loops read it: each entity and each     *)
(* stop-time update is drawn when the loop reaches it.                     *)

\* the table of the first line of FEED_URLS over the first stop-times table drawn
LineStopsDrawn ==
    get_stops_for_line(FeedKeys[1], RoutesTable, TripsTable,
        <<StopTime(trT1, id101N), StopTime(trT1, id104N), StopTime(trT1, id101S),
          StopTime(trT2, idA02N), StopTime(trT3, id104S)>>,
        <<Stop(id101N, nmBay, 1, 1), Stop(id101S, nmBay, 1, 2), Stop(id104N, nmAsh, 2, 1),
          Stop(id104S, nmAs, 2, 2), Stop(idA02N, nmash, 3, 3)>>)

StopDataDrawn == {LineStopsDrawn, <<>>}
StopNamesDrawn == {nmAsh, nmBay, nmElm, None}
NowDrawn == {50 * NowRes + 1, 150 * NowRes}

\* schedule_relationship: absent, SCHEDULED (0, the default) set explicitly, ADDED (1)
HeadersDrawn ==
    { Entity(FALSE, <<>>, <<>>, FALSE, 0, <<>>),
      Entity(TRUE, trT1, rt1, FALSE, 0, <<>>),
      Entity(TRUE, trT1, rt1, TRUE, 0, <<>>),
      Entity(TRUE, trT1, rt1, TRUE, 1, <<>>) }

\* the first second of year 10000, one second past datetime.max
Year10000 == Instant(MaxDay + 1, 0)

UpdatesDrawn ==
    { Update(id101N, TRUE, At(100)), Update(id101S, TRUE, At(200)), Update(id104N, TRUE, At(200)),
      Update(id104S, TRUE, At(100)), Update(id101N, FALSE, At(0)), Update(id104N, TRUE, At(0)),
      Update(id104S, TRUE, Year10000) }

\* the clock reads one of NowDrawn, or the very second (100) of an arrival drawn
InitMatch ==
    /\ AppInit
    /\ tp = IdleFrame
    /\ ls = IdleFrame
    /\ \E none \in BOOLEAN, sd \in StopDataDrawn, s \in StopNamesDrawn, e \in StopNamesDrawn,
          t \in NowDrawn \cup {100 * NowRes} :
          pf = [pc |-> "resolve", feed_is_none |-> none, stop_data |-> sd, start_stop |-> s,
                end_stop |-> e, now |-> t, start_base |-> <<>>, end_base |-> <<>>, n |-> 0,
                entity |-> Entity(FALSE, <<>>, <<>>, FALSE, 0, <<>>), scanned |-> <<>>,
                found |-> NotFound, data |-> <<>>, errors |-> <<>>, raised |-> "none"]

\* lines 77-84: resolve the base codes; on IndexError report and return an empty frame;
\* otherwise reach the loop, where feed.entity raises on a None feed
PF_Resolve ==
    /\ pf.pc = "resolve"
    /\ LET r == ResolveStops(pf.stop_data, pf.start_stop, pf.end_stop)
       IN  pf' = IF ~r.ok
                 THEN [pf EXCEPT !.pc = "done", !.errors = <<StopsNotFoundMsg>>]
                 ELSE IF pf.feed_is_none
                 THEN [pf EXCEPT !.start_base = r.start_base, !.end_base = r.end_base,
                                 !.pc = "raised", !.raised = "AttributeError"]
                 ELSE [pf EXCEPT !.start_base = r.start_base, !.end_base = r.end_base,
                                 !.pc = "entity"]
    /\ UNCHANGED <<appVars, tp, ls>>

\* lines 84-103: the next entity of the feed
PF_NextEntity ==
    /\ pf.pc = "entity"
    /\ pf.n < MaxEntities
    /\ \E e \in HeadersDrawn :
          pf' = [pf EXCEPT !.n = @ + 1, !.entity = e, !.scanned = <<>>, !.found = NotFound,
                           !.pc = IF e.has_trip_update THEN "update" ELSE "entity"]
    /\ UNCHANGED <<appVars, tp, ls>>

\* lines 105-110: the next stop-time update of the entity
PF_ScanUpdate ==
    /\ pf.pc = "update"
    /\ Len(pf.scanned) < MaxUpdates
    /\ \E u \in UpdatesDrawn :
          pf' = [pf EXCEPT !.scanned = Append(@, u),
                           !.found = UpdateStep(pf.found, u, pf.start_base, pf.end_base)]
    /\ UNCHANGED <<appVars, tp, ls>>

\* lines 112-127: the updates are exhausted; append the record if the entity qualifies,
\* unless the formatting of one of its two arrivals raises
PF_EndUpdates ==
    /\ pf.pc = "update"
    /\ LET emit == EmitRecord(pf.data, pf.entity, pf.start_stop, pf.end_stop, pf.found, pf.now)
       IN  pf' = [pf EXCEPT !.pc = IF emit.raised # "none" THEN "raised" ELSE "entity",
                            !.data = emit.data,
                            !.raised = emit.raised]
    /\ UNCHANGED <<appVars, tp, ls>>

\* line 129: the entities are exhausted; return pd.DataFrame(data)
PF_Return ==
    /\ pf.pc = "entity"
    /\ pf' = [pf EXCEPT !.pc = "done"]
    /\ UNCHANGED <<appVars, tp, ls>>

NextMatch == PF_Resolve \/ PF_NextEntity \/ PF_ScanUpdate \/ PF_EndUpdates \/ PF_Return

SpecMatch == InitMatch /\ [][NextMatch]_vars

\* the indices of the updates scanned so far whose stop-ID starts with base and that
\* carry an arrival
Matches(scanned, base) ==
    {i \in 1..Len(scanned) : StartsWith(scanned[i].stop_id, base) /\ scanned[i].has_arrival}

\* the arrival time of the first, and of the last, such update (None when there is none)
FirstMatch(scanned, base) ==
    LET m == Matches(scanned, base)
    IN  IF m = {} THEN NoneT ELSE Some(scanned[CHOOSE i \in m : \A j \in m : i <= j].time)

LastMatch(scanned, base) ==
    LET m == Matches(scanned, base)
    IN  IF m = {} THEN NoneT ELSE Some(scanned[CHOOSE i \in m : \A j \in m : i >= j].time)

\* the base code of the first row of the call's stop table with the given name
NamedBase(name) ==
    LET rows == {i \in 1..Len(pf.stop_data) : pf.stop_data[i].stop_name = name}
    IN  Take(pf.stop_data[CHOOSE i \in rows : \A j \in rows : i <= j].stop_id, 3)

\* C1: whenever parse_feed appends a record, the entity it comes from has a trip update
\* in which an update with an arrival was found for the start base code and one for the
\* end base code, the start arrival used is before the end arrival used and after now,
\* the call goes on (nothing was raised), and the record shows those two arrivals.  An
\* entity failing one of the conditions, or one whose arrival cannot be formatted,
\* contributes no record.
C1_RecordsQualify ==
    [][Len(pf'.data) > Len(pf.data) =>
          /\ pf.entity.has_trip_update
          /\ Matches(pf.scanned, NamedBase(pf.start_stop)) # {}
          /\ Matches(pf.scanned, NamedBase(pf.end_stop)) # {}
          /\ Before(pf.found.start[1], pf.found.end[1])
          /\ After(pf.found.start[1], pf.now)
          /\ pf'.pc # "raised"
          /\ pf'.data[Len(pf'.data)].Arrival_Time_Exact = Strftime(pf.found.start[1]).text
          /\ pf'.data[Len(pf'.data)].Destination_Arrival_Time = Strftime(pf.found.end[1]).text]_vars

\* C1 witness: a call returned a record for one entity and none for another.
C1_Witness ==
    /\ pf.pc = "done"
    /\ Len(pf.data) >= 1
    /\ pf.n > Len(pf.data)

\* C2 as claimed: the start (end) arrival the matcher uses is the arrival of the FIRST
\* update whose stop-ID starts with the start (end) base code and has an arrival.
C2_FirstMatchUsed ==
    pf.pc = "update" =>
        /\ pf.found.start = FirstMatch(pf.scanned, NamedBase(pf.start_stop))
        /\ pf.found.end = FirstMatch(pf.scanned, NamedBase(pf.end_stop))

\* C2 amended: the start (end) arrival the matcher uses is the arrival of the LAST
\* update whose stop-ID starts with the start (end) base code and has an arrival, each
\* independently of the other.
C2_LastMatchUsed ==
    pf.pc = "update" =>
        /\ pf.found.start = LastMatch(pf.scanned, NamedBase(pf.start_stop))
        /\ pf.found.end = LastMatch(pf.scanned, NamedBase(pf.end_stop))

\* C2 witness: two updates of one trip match the start base code with different
\* arrivals, and the trip qualifies with the later update's arrival.
C2_Witness ==
    /\ pf.pc = "update"
    /\ FirstMatch(pf.scanned, pf.start_base) # LastMatch(pf.scanned, pf.start_base)
    /\ pf.found.start = LastMatch(pf.scanned, pf.start_base)
    /\ Qualifies(pf.found, pf.now)

\* C4: once the names are looked up, if the start or the end name has no row in the stop
\* table, the call has returned with no entity scanned, no record, and the stop-not-found
\* error reported (also for a None feed); a call that returns after both names were
\* found reports no error, so the two empty results differ.
C4_StopNotFound ==
    LET named(name) == \E i \in 1..Len(pf.stop_data) : pf.stop_data[i].stop_name = name
    IN  pf.pc # "resolve" =>
            IF named(pf.start_stop) /\ named(pf.end_stop)
            THEN pf.errors = <<>>
            ELSE /\ pf.pc = "done"
                 /\ pf.n = 0
                 /\ pf.data = <<>>
                 /\ pf.errors = <<StopsNotFoundMsg>>

\* C4 witness: a call over a non-empty stop table whose start name is found and whose
\* end name is not has returned with the error.
C4_Witness ==
    /\ pf.pc = "done"
    /\ pf.errors = <<StopsNotFoundMsg>>
    /\ \E i \in 1..Len(pf.stop_data) : pf.stop_data[i].stop_name = pf.start_stop
    /\ \A i \in 1..Len(pf.stop_data) : pf.stop_data[i].stop_name # pf.end_stop

\* C9: the Status of every record appended is "Delayed" when the trip descriptor has a
\* schedule-relationship field with a non-default value, and "On Time" otherwise (no
\* field, or the default SCHEDULED).
C9_Status ==
    [][Len(pf'.data) > Len(pf.data) =>
          pf'.data[Len(pf'.data)].Status =
              IF pf.entity.has_rel /\ pf.entity.rel # 0 THEN "Delayed" ELSE "On Time"]_vars

\* C9 witness: the only entity read so far carries the field with its default value and
\* its record says "On Time".
C9_Witness ==
    /\ pf.pc = "entity"
    /\ pf.n = 1
    /\ Len(pf.data) = 1
    /\ pf.entity.has_rel
    /\ pf.entity.rel = 0
    /\ pf.data[1].Status = "On Time"

-----------------------------------------------------------------------------
(* Specification SpecTrip: one call of plot_selected_trip_on_map, stepped  *)
(* through its loops, the feed read as the loops read it.                  *)

StopsDrawn ==
    { <<Stop(id101N, nmBay, 1, 1), Stop(id101S, nmBay, 1, 2), Stop(id104N, nmAsh, 2, 1)>>,
      <<Stop(id104S, nmAsh, 2, 2), Stop(id101S, nmBay, 1, 2), Stop(id101N, nmBay, 1, 1)>> }

TripIdsDrawn == {trT1, trT2}

TripHeadersDrawn ==
    { Entity(FALSE, <<>>, <<>>, FALSE, 0, <<>>),
      Entity(TRUE, trT1, rt1, FALSE, 0, <<>>),
      Entity(TRUE, trT2, rtA, FALSE, 0, <<>>) }

\* 101N/101S: a known base code; A02N and 9: base codes of no row; an empty stop-ID,
\* whose base code is a prefix of every row's stop-ID
TripUpdatesDrawn ==
    { Update(id101S, TRUE, At(100)), Update(id101N, FALSE, At(0)), Update(idA02N, TRUE, At(200)),
      Update(id104N, TRUE, At(200)), Update(id9, TRUE, At(100)), Update(<<>>, TRUE, At(200)),
      Update(id104N, TRUE, Year10000) }

InitTrip ==
    /\ AppInit
    /\ pf = IdleFrame
    /\ ls = IdleFrame
    /\ \E none \in BOOLEAN, id \in TripIdsDrawn, s \in StopsDrawn, t \in NowDrawn :
          tp = [pc |-> "start", feed_is_none |-> none, trip_id |-> id, stops |-> s, now |-> t,
                seen |-> <<>>, scanned |-> <<>>, trip_stops |-> <<>>,
                result |-> [map |-> NoMap, warnings |-> <<>>], raised |-> "none"]

\* line 135: feed.entity, which raises on a None feed
TP_Start ==
    /\ tp.pc = "start"
    /\ tp' = IF tp.feed_is_none
             THEN [tp EXCEPT !.pc = "raised", !.raised = "AttributeError"]
             ELSE [tp EXCEPT !.pc = "entity"]
    /\ UNCHANGED <<appVars, pf, ls>>

\* lines 135-136: the next entity of the feed
TP_NextEntity ==
    /\ tp.pc = "entity"
    /\ Len(tp.seen) < MaxEntities
    /\ \E e \in TripHeadersDrawn :
          tp' = [tp EXCEPT !.seen = Append(@, e),
                           !.pc = IF IsTrip(e, tp.trip_id) THEN "update" ELSE "entity"]
    /\ UNCHANGED <<appVars, pf, ls>>

\* lines 137-148: the next stop-time update of the trip's entity, which ends the call
\* when the formatting of its arrival raises
TP_ScanUpdate ==
    /\ tp.pc = "update"
    /\ Len(tp.scanned) < MaxUpdates
    /\ \E u \in TripUpdatesDrawn :
          LET step == TripStopStep(tp.trip_stops, u, tp.stops, tp.now)
          IN  tp' = [tp EXCEPT !.scanned = Append(@, u),
                               !.trip_stops = step.trip_stops,
                               !.raised = step.raised,
                               !.pc = IF step.raised # "none" THEN "raised" ELSE "update"]
    /\ UNCHANGED <<appVars, pf, ls>>

\* lines 149-164: the trip's updates are exhausted: break, and return
TP_Break ==
    /\ tp.pc = "update"
    /\ tp' = [tp EXCEPT !.pc = "done", !.result = MapOf(tp.trip_stops)]
    /\ UNCHANGED <<appVars, pf, ls>>

\* lines 151-164: the entities are exhausted without the trip: return
TP_EndFeed ==
    /\ tp.pc = "entity"
    /\ tp' = [tp EXCEPT !.pc = "done", !.result = MapOf(tp.trip_stops)]
    /\ UNCHANGED <<appVars, pf, ls>>

NextTrip == TP_Start \/ TP_NextEntity \/ TP_ScanUpdate \/ TP_Break \/ TP_EndFeed

SpecTrip == InitTrip /\ [][NextTrip]_vars

\* C7 as claimed: when plot_selected_trip_on_map has ended over a feed, either no entity
\* read had a trip update with the requested trip ID, and then the stop sequence is empty
\* and the call reports a warning and no map, not an error; or the first such entity is
\* the last entity read (nothing after it was read) and the stop sequence is exactly its
\* updates, in order, that have an arrival and whose stop-ID's first three characters are
\* a prefix of some stop row's ID, each with the name and coordinates of the first such
\* row and its own arrival.
C7_TripPath ==
    (tp.pc \in {"done", "raised"} /\ ~tp.feed_is_none) =>
        LET hits == {i \in 1..Len(tp.seen) :
                        tp.seen[i].has_trip_update /\ tp.seen[i].trip_id = tp.trip_id}
            rowsOf(u) == {i \in 1..Len(tp.stops) :
                             SubSeq(tp.stops[i].stop_id, 1, Len(Take(u.stop_id, 3))) = Take(u.stop_id, 3)}
            kept == SelectSeq(tp.scanned, LAMBDA u : u.has_arrival /\ rowsOf(u) # {})
            firstRow(u) == tp.stops[CHOOSE i \in rowsOf(u) : \A j \in rowsOf(u) : i <= j]
        IN  IF hits = {}
            THEN /\ tp.pc = "done"
                 /\ tp.trip_stops = <<>>
                 /\ tp.result.map.is_none
                 /\ tp.result.warnings = <<NoStopsMsg>>
            ELSE /\ hits = {Len(tp.seen)}
                 /\ Len(tp.trip_stops) = Len(kept)
                 /\ \A k \in 1..Len(kept) :
                       /\ tp.trip_stops[k].stop_name = firstRow(kept[k]).stop_name
                       /\ tp.trip_stops[k].stop_lat = firstRow(kept[k]).stop_lat
                       /\ tp.trip_stops[k].stop_lon = firstRow(kept[k]).stop_lon
                       /\ tp.trip_stops[k].arrival = Strftime(kept[k].time).text

-----------------------------------------------------------------------------
(* Specification Spec: the app in one process, one browser session at a    *)
(* time.  Every user action reruns the script from the top; the run it     *)
(* starts ends on its own, or is stopped by the action that follows.       *)

ArchivesDrawn ==
    { [routes |-> RoutesTable, trips |-> TripsTable,
       stop_times |-> <<StopTime(trT1, id101N), StopTime(trT1, id104N), StopTime(trT1, id101S),
                        StopTime(trT2, idA02N), StopTime(trT3, id104S)>>,
       stops |-> <<Stop(id101N, nmBay, 1, 1), Stop(id101S, nmBay, 1, 2), Stop(id104N, nmAsh, 2, 1),
                   Stop(id104S, nmAsh, 2, 2), Stop(idA02N, nmash, 3, 3)>>] }

DownloadsDrawn ==
    {[kind |-> "raise"], [kind |-> "non200"]} \cup {[kind |-> "ok", archive |-> a] : a \in ArchivesDrawn}

\* a snapshot of the main feed: an entity without a trip update, a trip that never
\* reaches a 101 stop, trip T1 from 101 to 104, and trip T3 doing the same later
FeedEarly ==
    FeedMessage(<< Entity(FALSE, <<>>, <<>>, FALSE, 0, <<>>),
                   Entity(TRUE, trT2, rtA, FALSE, 0, <<Update(id104N, TRUE, At(100))>>),
                   Entity(TRUE, trT1, rt1, FALSE, 0,
                          <<Update(id101N, TRUE, At(100)), Update(id104N, TRUE, At(200))>>),
                   Entity(TRUE, trT3, rt1, TRUE, 1,
                          <<Update(id101S, TRUE, At(200)), Update(id104S, TRUE, At(300))>>) >>)

\* a later snapshot of the main feed: T1 has left it
FeedLate ==
    FeedMessage(<< Entity(TRUE, trT3, rt1, TRUE, 1,
                          <<Update(id101S, TRUE, At(200)), Update(id104S, TRUE, At(300))>>) >>)

\* a snapshot of every other feed
FeedOther == FeedMessage(<< Entity(TRUE, trT2, rtA, FALSE, 0, <<Update(idA02N, TRUE, At(200))>>) >>)

\* the outcome the download would have in a run that does not get to it
DownloadUnasked == CHOOSE d \in DownloadsDrawn : d.kind = "ok"

\* the lines the user picks
LinesDrawn == {FeedKeys[1], FeedKeys[2], FeedKeys[4]}

\* a fetch that raises
FetchFails == [kind |-> "raise", e |-> "no network"]

\* the outcomes of a fetch of url: a snapshot of that URL is decoded, or the fetch raises
FetchesDrawn(url) ==
    {FetchFails} \cup {[kind |-> "ok", feed |-> f] :
                          f \in (IF url = Url(<<>>) THEN {FeedEarly, FeedLate} ELSE {FeedOther})}

\* the commands at which a run is stopped, or not stopped: every yielding command but
\* those that leave the state another one leaves ("32" that of "31", "35" that of "34",
\* "167" and "168" that of "170", "195", "197", "198" and "200" that of "194")
YieldsDrawn ==
    (Range(YieldPoints) \ {"32", "35", "167", "168", "195", "197", "198", "200"}) \cup {NoStop}

\* the yielding commands a run may get to, given whether the button was pressed (a run
\* that does not get to the command it would be stopped at is a run that is not stopped)
MayYield(p, button) ==
    (Order("183") < Order(p) /\ Order(p) < Order("194")) => button

\* the earliest clock reading drawn
FirstNow == CHOOSE n \in NowDrawn : \A m \in NowDrawn : n <= m

Init ==
    /\ AppInit
    /\ pf = IdleFrame
    /\ tp = IdleFrame
    /\ ls = IdleFrame

\* the run with the given widget values and button, over every yielding command it may
\* be stopped at and every outcome of what it gets to before: the download (made only
\* when the cache is empty), the two fetches and the two readings of the clock
RunScript(line, from, to, button) ==
    \E stop \in {p \in YieldsDrawn : MayYield(p, button)} :
    \E download \in (IF cache.state = "miss" /\ Order(stop) > Order("170")
                     THEN DownloadsDrawn ELSE {DownloadUnasked}),
       response1 \in (IF button /\ Order(stop) > Order("183")
                      THEN FetchesDrawn(FEED_URLS(line)) ELSE {FetchFails}),
       response2 \in (IF Order(stop) > Order("200")
                      THEN FetchesDrawn(FEED_URLS(line)) ELSE {FetchFails}),
       now1 \in (IF button /\ Order(stop) > Order("184:70") THEN NowDrawn ELSE {FirstNow}),
       now2 \in (IF Order(stop) > Order("200:70") THEN NowDrawn ELSE {FirstNow}) :
        /\ now1 <= now2
        /\ \E next \in {Script(line, from, to, button, download, response1, response2,
                               now1, now2, stop)} :
               /\ cache' = next.cache
               /\ builds' = next.builds
               /\ feed_name' = next.feed_name
               /\ start_stop' = next.start_stop
               /\ end_stop' = next.end_stop
               /\ session_state' = next.session_state
               /\ run' = next.run
        /\ UNCHANGED <<pf, tp, ls>>

\* the station selectboxes and the button are on the page
PageShown == run.page

\* the options of the two station selectboxes for a line, from the cached tables
OptionsOf(line) ==
    StopNames(get_stops_for_line(line, cache.value.routes, cache.value.trips,
                                 cache.value.stop_times, cache.value.stops))

\* a browser opens the app: the first run of a session, the line selectbox at its first
\* option
OpenPage ==
    /\ run.outcome = "init"
    /\ RunScript(FeedKeys[1], None, None, FALSE)

\* the map widget reports back, or an action is made on a widget that is no longer the
\* page's: a rerun with the widgets as they are
Rerun ==
    /\ run.outcome # "init"
    /\ RunScript(feed_name, start_stop, end_stop, FALSE)

\* the user picks another line; station selectboxes whose options change start over
SelectLine ==
    /\ run.outcome # "init"
    /\ \E line \in LinesDrawn :
          /\ line # feed_name
          /\ IF PageShown /\ OptionsOf(line) = OptionsOf(feed_name)
             THEN RunScript(line, start_stop, end_stop, FALSE)
             ELSE RunScript(line, None, None, FALSE)

\* the user picks a "From:" station
SelectFrom ==
    /\ PageShown
    /\ \E name \in Range(OptionsOf(feed_name)) :
          /\ name # start_stop
          /\ RunScript(feed_name, name, end_stop, FALSE)

\* the user picks a "To:" station
SelectTo ==
    /\ PageShown
    /\ \E name \in Range(OptionsOf(feed_name)) :
          /\ name # end_stop
          /\ RunScript(feed_name, start_stop, name, FALSE)

\* the user presses "Search Trains"
SearchTrains ==
    /\ PageShown
    /\ RunScript(feed_name, start_stop, end_stop, TRUE)

\* the page is closed or reloaded: the next browser gets a new session, whose
\* st.session_state and widgets start empty; the cache of load_gtfs_static_data is the
\* process's and stays
EndSession ==
    /\ run.outcome # "init"
    /\ feed_name' = None
    /\ start_stop' = None
    /\ end_stop' = None
    /\ session_state' = <<>>
    /\ run' = NoRun
    /\ UNCHANGED <<cache, builds, pf, tp, ls>>

Next == OpenPage \/ Rerun \/ SelectLine \/ SelectFrom \/ SelectTo \/ SearchTrains \/ EndSession

Spec == Init /\ [][Next]_vars

\* C3 as claimed: a run in which a fetch failed (fetch_subway_feed returned None to the
\* search handler or to the map step) is not ended by an exception, and a search whose
\* fetch failed and that ran to its end has stored an empty result.
C3_FetchFailureRecovered ==
    /\ (run.search.called /\ run.search.feed.is_none) =>
           /\ run.outcome \in {"ok", "stopped"}
           /\ run.outcome = "ok" => Len(session_state["df"]) = 0
    /\ (run.map_step.called /\ run.map_step.feed.is_none) =>
           run.outcome \in {"ok", "stopped"}

\* C5 as claimed: whenever the map step runs in a script run, the run has fetched the
\* realtime source at most once, the feed the map step scans is the one the matcher
\* consumed in that run, and the selected trip is present in it.
C5_OneSnapshotPerCycle ==
    run.map_step.called =>
        /\ run.fetches <= 1
        /\ run.search.called => run.map_step.feed = run.search.feed
        /\ ~run.map_step.feed.is_none
        /\ \E i \in 1..Len(run.map_step.feed.entity) :
              /\ run.map_step.feed.entity[i].has_trip_update
              /\ run.map_step.feed.entity[i].trip_id = run.map_step.trip_id

\* C6: the static dataset is downloaded and built at most once in the process, and once
\* a value is cached no script run (with its calls of get_stops_for_line, parse_feed and
\* plot_selected_trip_on_map), stopped or not, and no new session changes the cached
\* tables or headsign map.
C6_StaticBuiltOnce ==
    /\ [](builds <= 1)
    /\ [][cache.state = "hit" => cache' = cache]_vars

\* C6 witness: with the dataset built, a search has run the matcher and the map step.
C6_Witness ==
    /\ builds = 1
    /\ cache.state = "hit"
    /\ ~cache.value.is_none
    /\ run.outcome = "ok"
    /\ run.search.called
    /\ run.map_step.called
    /\ ~run.map.is_none

\* C10 as claimed: no run ends reading 'show_map' before it was assigned; whenever the
\* stored table is non-empty, 'show_map' is set and true and 'selected_trip_id' is the
\* Trip ID of the table's first row; after a search that ran to its end, the selected
\* trip is the first entity of the searched feed that yields a record, or, for an empty
\* table, 'selected_trip_id' is None and 'show_map' is false.
C10_SessionState ==
    /\ run.outcome # "KeyError"
    /\ ("df" \in DOMAIN session_state /\ Len(session_state["df"]) > 0) =>
           /\ "show_map" \in DOMAIN session_state
           /\ session_state["show_map"] = TRUE
           /\ session_state["selected_trip_id"] = session_state["df"][1].Trip_ID
    /\ (run.search.called /\ run.outcome \notin {"AttributeError in parse_feed", "stopped"}) =>
           IF Len(session_state["df"]) = 0
           THEN /\ session_state["selected_trip_id"] = None
                /\ session_state["show_map"] = FALSE
           ELSE LET es == run.search.feed.entity
                    yields(i) == \E j \in 1..Len(session_state["df"]) :
                                    /\ es[i].has_trip_update
                                    /\ session_state["df"][j].Trip_ID = es[i].trip_id
                IN  \E i \in 1..Len(es) :
                       /\ yields(i)
                       /\ \A k \in 1..(i - 1) : ~yields(k)
                       /\ session_state["selected_trip_id"] = es[i].trip_id

====
